---------------------------- MODULE Spec2Model ----------------------------
(***************************************************************************)
(* Model of crud_crew.py: the PostgreSQLCRUDAgent class (connection        *)
(* builder, four tool functions, agent/task dispatcher) and the main       *)
(* entry point.  Text is a sequence of one-character strings, so that      *)
(* concatenation, lower() and the substring test are computed.  The        *)
(* external libraries (SQLDatabase, the SQL tools, Agent, Task, Crew) are   *)
(* the environment: each call either returns a value or raises.            *)
(***************************************************************************)
EXTENDS Integers, Sequences, FiniteSets, TLC

VARIABLES
    pc,                 \* position of the single thread of control
    env,                \* os.environ restricted to the five PG_* names
    uri_passed,         \* argument of the last SQLDatabase.from_uri call
    db,                 \* self.db
    closure_db,         \* the local `db` the four tool closures capture
    tools,              \* self.tools
    agent,              \* self.agent
    ro,                 \* frame of the run_operation call in progress
    crews,              \* every Crew built so far, with its Task
    tool_frame,         \* the last tool invocation of the running kickoff
    tool_calls,         \* tool invocations made by the running kickoff
    list_tables_result, \* main's local list_tables_result
    blah,               \* main's local blah
    output,             \* the print calls main has made
    exc,                \* the exception that terminated the process
    calls,              \* number of calls of each counted function
    trace,              \* main-level events, in order
    next_id             \* identity of the next object an external call builds

vars == <<pc, env, uri_passed, db, closure_db, tools, agent, ro, crews,
          tool_frame, tool_calls, list_tables_result, blah, output, exc,
          calls, trace, next_id>>

-----------------------------------------------------------------------------
(* Bounds of the model. *)

\* longest text crew.kickoff() returns
MaxLen == 4

\* most tool invocations the agent makes during one kickoff
MaxToolCalls == 2

-----------------------------------------------------------------------------
(* Python values. *)

PyNone == [type |-> "NoneType"]

PyStr(s) == [type |-> "str", s |-> s]

\* a non-string object (a result set, a row list) with its printable form
PyObj(r) == [type |-> "object", repr |-> r]

PyException(t) == [type |-> "Exception", text |-> t]

\* str(v)
Str(v) ==
    IF v.type = "str" THEN v.s
    ELSE IF v.type = "NoneType" THEN <<"N", "o", "n", "e">>
    ELSE IF v.type = "Exception" THEN v.text
    ELSE v.repr

RECURSIVE Concat(_)
\* "".join(parts)
Concat(parts) ==
    IF parts = <<>> THEN <<>> ELSE Head(parts) \o Concat(Tail(parts))

Returned(v) == [raised |-> FALSE, value |-> v]

Raised(e) == [raised |-> TRUE, exc |-> e]

NoFrame == [tool |-> "none"]

NoExc == [site |-> "none"]

-----------------------------------------------------------------------------
(* The environment variables and the connection URI. *)

EnvNames == {"PG_USER", "PG_PASSWORD", "PG_HOST", "PG_PORT", "PG_DATABASE"}

\* os.getenv(name): the value, or None when the variable is not set
getenv(name) == env[name]

\* the five assignments to os.environ of the main entry point, by line
EnvAssign ==
    [L92 |-> [name |-> "PG_USER", value |-> <<"u", "s", "e", "r", "_", "n", "a", "m", "e">>, next |-> "L93"],
     L93 |-> [name |-> "PG_PASSWORD", value |-> <<"y", "o", "u", "r", "_", "p", "a", "s", "s", "w", "o", "r", "d">>, next |-> "L94"],
     L94 |-> [name |-> "PG_HOST", value |-> <<"l", "o", "c", "a", "l", "h", "o", "s", "t">>, next |-> "L95"],
     L95 |-> [name |-> "PG_PORT", value |-> <<"5", "4", "3", "2">>, next |-> "L96"],
     L96 |-> [name |-> "PG_DATABASE", value |-> <<"p", "o", "s", "t", "g", "r", "e", "s">>, next |-> "L98"]]

RECURSIVE Quote(_)
\* percent-encoding of the reserved character "@"
Quote(s) ==
    IF s = <<>> THEN <<>>
    ELSE (IF Head(s) = "@" THEN <<"%", "4", "0">> ELSE <<Head(s)>>) \o Quote(Tail(s))

\* the f-string with the password percent-encoded
db_uri_quoted ==
    Concat(<<<<"p", "o", "s", "t", "g", "r", "e", "s", "q", "l", ":", "/", "/">>, Str(getenv("PG_USER")), <<":">>,
             Quote(Str(getenv("PG_PASSWORD"))),
             <<"@">>, Str(getenv("PG_HOST")), <<":">>, Str(getenv("PG_PORT")),
             <<"/">>, Str(getenv("PG_DATABASE"))>>)

\* the f-string of _connect_to_db: literal parts and formatted values joined
db_uri ==
    Concat(<<<<"p", "o", "s", "t", "g", "r", "e", "s", "q", "l", ":", "/", "/">>, Str(getenv("PG_USER")), <<":">>,
             Str(getenv("PG_PASSWORD")),
             <<"@">>, Str(getenv("PG_HOST")), <<":">>, Str(getenv("PG_PORT")),
             <<"/">>, Str(getenv("PG_DATABASE"))>>)

\* texts an exception raised by an external library may carry
ExcTexts == {<<>>, <<"n", "o">>}

-----------------------------------------------------------------------------
(* The initial state: the process starts at the main entry point. *)

Init ==
    /\ pc = "L92"
    /\ env = [n \in EnvNames |-> PyNone]
    /\ uri_passed = PyNone
    /\ db = PyNone
    /\ closure_db = PyNone
    /\ tools = <<>>
    /\ agent = PyNone
    /\ ro = PyNone
    /\ crews = <<>>
    /\ tool_frame = NoFrame
    /\ tool_calls = 0
    /\ list_tables_result = PyNone
    /\ blah = PyNone
    /\ output = <<>>
    /\ exc = NoExc
    /\ calls = [from_uri |-> 0, Agent |-> 0, run_operation |-> 0, kickoff |-> 0]
    /\ trace = <<>>
    /\ next_id = 1

-----------------------------------------------------------------------------
(* Main entry point, lines 92-96. *)

MainSetEnv ==
    /\ pc \in DOMAIN EnvAssign
    /\ env' = [env EXCEPT ![EnvAssign[pc].name] = PyStr(EnvAssign[pc].value)]
    /\ trace' = Append(trace, <<"setenv", EnvAssign[pc].name>>)
    /\ pc' = EnvAssign[pc].next
    /\ UNCHANGED <<uri_passed, db, closure_db, tools, agent, ro, crews,
                   tool_frame, tool_calls, list_tables_result, blah, output,
                   exc, calls, next_id>>

-----------------------------------------------------------------------------
(* The constructor, lines 12-15. *)

\* an exception leaves every frame uncaught: the process ends
Crash(site, e) ==
    /\ exc' = [site |-> site, text |-> Str(e)]
    /\ pc' = "crashed"

\* _connect_to_db where a failure of from_uri is swallowed
ConnectToDbSwallow ==
    /\ pc = "L98"
    /\ uri_passed' = PyStr(db_uri)
    /\ calls' = [calls EXCEPT !.from_uri = @ + 1]
    /\ trace' = Append(trace, <<"construct">>)
    /\ \/ /\ db' = [type |-> "SQLDatabase", id |-> next_id, uri |-> db_uri]
          /\ next_id' = next_id + 1
          /\ UNCHANGED exc
       \/ /\ \E t \in ExcTexts : exc' = [site |-> "from_uri", text |-> t]
          /\ db' = PyNone
          /\ next_id' = next_id
    /\ pc' = "L14"
    /\ UNCHANGED <<env, closure_db, tools, agent, ro, crews, tool_frame,
                   tool_calls, list_tables_result, blah, output>>

\* line 98 calls the constructor; line 13: self.db = self._connect_to_db()
ConnectToDb ==
    /\ pc = "L98"
    /\ uri_passed' = PyStr(db_uri)
    /\ calls' = [calls EXCEPT !.from_uri = @ + 1]
    /\ trace' = Append(trace, <<"construct">>)
    /\ \/ /\ db' = [type |-> "SQLDatabase", id |-> next_id, uri |-> db_uri]
          /\ next_id' = next_id + 1
          /\ pc' = "L14"
          /\ UNCHANGED exc
       \/ /\ \E t \in ExcTexts : Crash("from_uri", PyException(t))
          /\ UNCHANGED <<db, next_id>>
    /\ UNCHANGED <<env, closure_db, tools, agent, ro, crews, tool_frame,
                   tool_calls, list_tables_result, blah, output>>

ToolNames == <<"execute_sql", "check_sql", "describe_table", "list_tables">>

\* _create_tools called before _connect_to_db
CreateToolsBeforeConnect ==
    /\ pc = "L98"
    /\ tools = <<>>
    /\ closure_db' = db
    /\ tools' = ToolNames
    /\ pc' = "L98"
    /\ UNCHANGED <<env, uri_passed, db, agent, ro, crews, tool_frame,
                   tool_calls, list_tables_result, blah, output, exc, calls,
                   trace, next_id>>

\* line 14: self.tools = self._create_tools()
CreateTools ==
    /\ pc = "L14"
    /\ closure_db' = db
    /\ tools' = ToolNames
    /\ pc' = "L15"
    /\ UNCHANGED <<env, uri_passed, db, agent, ro, crews, tool_frame,
                   tool_calls, list_tables_result, blah, output, exc, calls,
                   trace, next_id>>

\* line 15: self.agent = self._create_agent()
CreateAgent ==
    /\ pc = "L15"
    /\ calls' = [calls EXCEPT !.Agent = @ + 1]
    /\ \/ /\ agent' = [type |-> "Agent", id |-> next_id, tools |-> tools]
          /\ next_id' = next_id + 1
          /\ pc' = "L101"
          /\ UNCHANGED exc
       \/ /\ \E t \in ExcTexts : Crash("Agent", PyException(t))
          /\ UNCHANGED <<agent, next_id>>
    /\ UNCHANGED <<env, uri_passed, db, closure_db, tools, ro, crews,
                   tool_frame, tool_calls, list_tables_result, blah, output,
                   trace>>

-----------------------------------------------------------------------------
(* The four tool functions, lines 29-59.  Each is a function of its        *)
(* argument and of the outcome of the external call it forwards to.        *)

\* arguments the agent passes to a tool
ToolInputs == {<<>>, <<"t">>}

\* texts an external call may return (or print for a non-string value)
ExtTexts == {<<>>, <<"o", "k">>}

RaisedOutcomes == {Raised(PyException(t)) : t \in ExcTexts}

\* QuerySQLCheckerTool.run, db.get_table_info and ListSQLDatabaseTool.run
\* return text or raise
StrOutcomes == {Returned(PyStr(t)) : t \in ExtTexts} \cup RaisedOutcomes

\* QuerySQLDataBaseTool.run returns a string, a row sequence or a result object
QueryRunOutcomes == StrOutcomes \cup {Returned(PyObj(t)) : t \in ExtTexts}

\* execute_sql without the str() around the external call
execute_sql_unconverted(sql_query, outcome) ==
    IF outcome.raised
    THEN Returned(PyStr(<<"E", "x", "e", "c", "u", "t", "i", "o", "n", " ", "f", "a", "i", "l", "e", "d", ":", " ">> \o Str(outcome.exc)))
    ELSE Returned(outcome.value)

\* lines 30-35
execute_sql(sql_query, outcome) ==
    IF outcome.raised
    THEN Returned(PyStr(<<"E", "x", "e", "c", "u", "t", "i", "o", "n", " ", "f", "a", "i", "l", "e", "d", ":", " ">> \o Str(outcome.exc)))
    ELSE Returned(PyStr(Str(outcome.value)))

\* lines 38-43
check_sql(sql_query, outcome) ==
    IF outcome.raised
    THEN Returned(PyStr(<<"V", "a", "l", "i", "d", "a", "t", "i", "o", "n", " ", "f", "a", "i", "l", "e", "d", ":", " ">> \o Str(outcome.exc)))
    ELSE Returned(outcome.value)

\* describe_table with no try/except
describe_table_uncaught(table_name, outcome) ==
    IF outcome.raised
    THEN Raised(outcome.exc)
    ELSE Returned(outcome.value)

\* lines 46-51
describe_table(table_name, outcome) ==
    IF outcome.raised
    THEN Returned(PyStr(<<"T", "a", "b", "l", "e", " ", "d", "e", "s", "c", "r", "i", "p", "t", "i", "o", "n", " ", "f", "a", "i", "l", "e", "d", ":", " ">> \o Str(outcome.exc)))
    ELSE Returned(outcome.value)

\* lines 54-59
list_tables(query, outcome) ==
    IF outcome.raised
    THEN Returned(PyStr(<<"T", "a", "b", "l", "e", " ", "l", "i", "s", "t", "i", "n", "g", " ", "f", "a", "i", "l", "e", "d", ":", " ">> \o Str(outcome.exc)))
    ELSE Returned(outcome.value)

\* whether the agent holds the tool called name
HasTool(name) ==
    /\ agent # PyNone
    /\ \E i \in 1..Len(agent.tools) : agent.tools[i] = name

\* a tool invocation that drops the captured handle when the external call raised
InvokeReconnect(name, arg, outcome, result) ==
    /\ tool_frame' = [tool |-> name, arg |-> arg, db |-> closure_db,
                      outcome |-> outcome, result |-> result]
    /\ tool_calls' = tool_calls + 1
    /\ closure_db' = IF outcome.raised THEN PyNone ELSE closure_db
    /\ UNCHANGED <<pc, env, uri_passed, db, tools, agent, ro, crews,
                   list_tables_result, blah, output, exc, calls, trace,
                   next_id>>

\* one tool function runs from its call to its return: it hands arg and the
\* captured handle to the external call and returns result; nothing else changes
Invoke(name, arg, outcome, result) ==
    /\ tool_frame' = [tool |-> name, arg |-> arg, db |-> closure_db,
                      outcome |-> outcome, result |-> result]
    /\ tool_calls' = tool_calls + 1
    /\ UNCHANGED <<pc, env, uri_passed, db, closure_db, tools, agent, ro,
                   crews, list_tables_result, blah, output, exc, calls, trace,
                   next_id>>

\* the agent, inside crew.kickoff(), may call a tool it holds
CanInvoke(name) ==
    /\ pc = "kickoff"
    /\ HasTool(name)
    /\ tool_calls < MaxToolCalls

ExecuteSql ==
    /\ CanInvoke("execute_sql")
    /\ \E q \in ToolInputs, o \in QueryRunOutcomes :
          Invoke("execute_sql", q, o, execute_sql(q, o))

CheckSql ==
    /\ CanInvoke("check_sql")
    /\ \E q \in ToolInputs, o \in StrOutcomes :
          Invoke("check_sql", q, o, check_sql(q, o))

DescribeTable ==
    /\ CanInvoke("describe_table")
    /\ \E n \in ToolInputs, o \in StrOutcomes :
          Invoke("describe_table", n, o, describe_table(n, o))

ListTables ==
    /\ CanInvoke("list_tables")
    /\ \E q \in ToolInputs, o \in StrOutcomes :
          Invoke("list_tables", q, o, list_tables(q, o))

-----------------------------------------------------------------------------
(* run_operation, lines 77-89. *)

\* characters of the texts crew.kickoff() returns: the letters of the
\* literal of line 107, one of them in upper case
Alphabet == {"B", "l", "a", "h"}

\* texts crew.kickoff() returns (main calls .lower() on the value: a str)
ResultTexts == UNION {[1..n -> Alphabet] : n \in 0..MaxLen}

\* a call of run_operation from main: the frame is pushed
Call(description, op) ==
    /\ ro' = [description |-> description, op |-> op, task |-> PyNone]
    /\ calls' = [calls EXCEPT !.run_operation = @ + 1]
    /\ trace' = Append(trace, <<"call", op, description>>)
    /\ pc' = "L79"
    /\ UNCHANGED <<env, uri_passed, db, closure_db, tools, agent, crews,
                   tool_frame, tool_calls, list_tables_result, blah, output,
                   exc, next_id>>

\* lines 79-83: task = Task(description=..., expected_output=..., agent=self.agent)
TaskCtor ==
    /\ pc = "L79"
    /\ \/ /\ ro' = [ro EXCEPT !.task = [type |-> "Task", id |-> next_id,
                                        description |-> ro.description,
                                        agent |-> agent]]
          /\ next_id' = next_id + 1
          /\ pc' = "L84"
          /\ UNCHANGED exc
       \/ /\ \E t \in ExcTexts : Crash("Task", PyException(t))
          /\ UNCHANGED <<ro, next_id>>
    /\ UNCHANGED <<env, uri_passed, db, closure_db, tools, agent, crews,
                   tool_frame, tool_calls, list_tables_result, blah, output,
                   calls, trace>>

\* lines 84-88: crew = Crew(agents=[self.agent], tasks=[task], verbose=2)
CrewCtor ==
    /\ pc = "L84"
    /\ \/ /\ crews' = Append(crews, [type |-> "Crew", id |-> next_id,
                                     agents |-> <<agent>>,
                                     tasks |-> <<ro.task>>,
                                     kickoffs |-> 0, result |-> PyNone])
          /\ next_id' = next_id + 1
          /\ pc' = "L89"
          /\ UNCHANGED exc
       \/ /\ \E t \in ExcTexts : Crash("Crew", PyException(t))
          /\ UNCHANGED <<crews, next_id>>
    /\ UNCHANGED <<env, uri_passed, db, closure_db, tools, agent, ro,
                   tool_frame, tool_calls, list_tables_result, blah, output,
                   calls, trace>>

\* line 89: crew.kickoff() is entered
KickoffCall ==
    /\ pc = "L89"
    /\ crews' = [crews EXCEPT ![Len(crews)].kickoffs = @ + 1]
    /\ calls' = [calls EXCEPT !.kickoff = @ + 1]
    /\ tool_frame' = NoFrame
    /\ tool_calls' = 0
    /\ pc' = "kickoff"
    /\ UNCHANGED <<env, uri_passed, db, closure_db, tools, agent, ro,
                   list_tables_result, blah, output, exc, trace, next_id>>

UpperLetters == <<"A", "B", "C", "D", "E", "F", "G", "H", "I", "J", "K", "L", "M", "N", "O", "P", "Q", "R", "S", "T", "U", "V", "W", "X", "Y", "Z">>

LowerLetters == <<"a", "b", "c", "d", "e", "f", "g", "h", "i", "j", "k", "l", "m", "n", "o", "p", "q", "r", "s", "t", "u", "v", "w", "x", "y", "z">>

LowerChar(c) ==
    IF \E i \in 1..Len(UpperLetters) : UpperLetters[i] = c
    THEN LowerLetters[CHOOSE i \in 1..Len(UpperLetters) : UpperLetters[i] = c]
    ELSE c

\* str.lower()
Lower(s) == [i \in 1..Len(s) |-> LowerChar(s[i])]

\* run_operation lower-casing what kickoff returned
run_operation_return_lower(result) == PyStr(Lower(Str(result)))

\* line 89: return crew.kickoff()
run_operation_return(result) == result

\* crew.kickoff() returns a text; run_operation returns it to main, which
\* binds it to list_tables_result (line 101) or blah (line 108)
KickoffReturn ==
    /\ pc = "kickoff"
    /\ \E t \in ResultTexts :
        /\ crews' = [crews EXCEPT ![Len(crews)].result = PyStr(t)]
        /\ IF ro.op = 1
           THEN /\ list_tables_result' = run_operation_return(PyStr(t))
                /\ pc' = "L104"
                /\ UNCHANGED blah
           ELSE /\ blah' = run_operation_return(PyStr(t))
                /\ pc' = "L111"
                /\ UNCHANGED list_tables_result
    /\ trace' = Append(trace, <<"return", ro.op>>)
    /\ ro' = PyNone
    /\ tool_frame' = NoFrame
    /\ tool_calls' = 0
    /\ UNCHANGED <<env, uri_passed, db, closure_db, tools, agent, output,
                   exc, calls, next_id>>

\* crew.kickoff() raising, caught and turned into an empty result
KickoffRaiseCaught ==
    /\ pc = "kickoff"
    /\ \E t \in ExcTexts : exc' = [site |-> "kickoff", text |-> t]
    /\ IF ro.op = 1
       THEN /\ list_tables_result' = PyStr(<<>>)
            /\ pc' = "L104"
            /\ UNCHANGED blah
       ELSE /\ blah' = PyStr(<<>>)
            /\ pc' = "L111"
            /\ UNCHANGED list_tables_result
    /\ UNCHANGED <<env, uri_passed, db, closure_db, tools, agent, ro, crews,
                   tool_frame, tool_calls, output, calls, trace, next_id>>

\* crew.kickoff() raises: nothing catches it
KickoffRaise ==
    /\ pc = "kickoff"
    /\ \E t \in ExcTexts : Crash("kickoff", PyException(t))
    /\ UNCHANGED <<env, uri_passed, db, closure_db, tools, agent, ro, crews,
                   tool_frame, tool_calls, list_tables_result, blah, output,
                   calls, trace, next_id>>

-----------------------------------------------------------------------------
(* Main entry point, lines 100-113. *)

\* lines 101-103
MainListTables ==
    /\ pc = "L101"
    /\ Call("List all available tables in the database", 1)

PrintCall(label, value) ==
    /\ output' = Append(output, <<label, value>>)
    /\ trace' = Append(trace, <<"print", label>>)

\* line 104
MainPrintTables ==
    /\ pc = "L104"
    /\ PrintCall("Tables in database:", list_tables_result)
    /\ pc' = "L107"
    /\ UNCHANGED <<env, uri_passed, db, closure_db, tools, agent, ro, crews,
                   tool_frame, tool_calls, list_tables_result, blah, exc,
                   calls, next_id>>

\* needle in hay, for strings
In(needle, hay) ==
    \E i \in 0..(Len(hay) - Len(needle)) :
        SubSeq(hay, i + 1, i + Len(needle)) = needle

NeedleShort == <<"b", "l", "a">>

\* the literal of line 107
Needle == <<"b", "l", "a", "h">>

\* line 107: if "blah" in list_tables_result.lower()
MainIf ==
    /\ pc = "L107"
    /\ pc' = IF In(Needle, Lower(list_tables_result.s)) THEN "L108" ELSE "L113"
    /\ UNCHANGED <<env, uri_passed, db, closure_db, tools, agent, ro, crews,
                   tool_frame, tool_calls, list_tables_result, blah, output,
                   exc, calls, trace, next_id>>

\* lines 108-110
MainListItems ==
    /\ pc = "L108"
    /\ Call("List all items with their status and creation date", 2)

\* line 111 with the else branch of line 112 falling through
MainPrintItemsFallThrough ==
    /\ pc = "L111"
    /\ PrintCall("Items:", blah)
    /\ pc' = "L113"
    /\ UNCHANGED <<env, uri_passed, db, closure_db, tools, agent, ro, crews,
                   tool_frame, tool_calls, list_tables_result, blah, exc,
                   calls, next_id>>

\* line 111
MainPrintItems ==
    /\ pc = "L111"
    /\ PrintCall("Items:", blah)
    /\ pc' = "done"
    /\ UNCHANGED <<env, uri_passed, db, closure_db, tools, agent, ro, crews,
                   tool_frame, tool_calls, list_tables_result, blah, exc,
                   calls, next_id>>

\* line 113
MainPrintNoItems ==
    /\ pc = "L113"
    /\ PrintCall("No items table found in the database", PyNone)
    /\ pc' = "done"
    /\ UNCHANGED <<env, uri_passed, db, closure_db, tools, agent, ro, crews,
                   tool_frame, tool_calls, list_tables_result, blah, exc,
                   calls, next_id>>

-----------------------------------------------------------------------------
(* Specifications. *)

Next ==
    \/ MainSetEnv
    \/ ConnectToDb
    \/ CreateTools
    \/ CreateAgent
    \/ MainListTables
    \/ TaskCtor
    \/ CrewCtor
    \/ KickoffCall
    \/ ExecuteSql
    \/ CheckSql
    \/ DescribeTable
    \/ ListTables
    \/ KickoffReturn
    \/ KickoffRaise
    \/ MainPrintTables
    \/ MainIf
    \/ MainListItems
    \/ MainPrintItems
    \/ MainPrintNoItems

\* the main entry point, from process start
Spec == Init /\ [][Next]_vars

\* texts an environment variable may hold
EnvTexts == {<<"u">>, <<"p">>, <<"h">>, <<"5", "4", "3", "2">>, <<"d">>, <<"p", "@", "/">>}

\* the constructor called in any environment: each variable set or not set
InitCtor ==
    /\ pc = "L98"
    /\ env \in [EnvNames -> {PyNone} \cup {PyStr(t) : t \in EnvTexts}]
    /\ uri_passed = PyNone
    /\ db = PyNone
    /\ closure_db = PyNone
    /\ tools = <<>>
    /\ agent = PyNone
    /\ ro = PyNone
    /\ crews = <<>>
    /\ tool_frame = NoFrame
    /\ tool_calls = 0
    /\ list_tables_result = PyNone
    /\ blah = PyNone
    /\ output = <<>>
    /\ exc = NoExc
    /\ calls = [from_uri |-> 0, Agent |-> 0, run_operation |-> 0, kickoff |-> 0]
    /\ trace = <<>>
    /\ next_id = 1

NextCtor == ConnectToDb \/ CreateTools \/ CreateAgent

SpecCtor == InitCtor /\ [][NextCtor]_vars

-----------------------------------------------------------------------------
(* Properties. *)

FailurePrefix ==
    [execute_sql |-> <<"E", "x", "e", "c", "u", "t", "i", "o", "n", " ", "f", "a", "i", "l", "e", "d", ":", " ">>,
     check_sql |-> <<"V", "a", "l", "i", "d", "a", "t", "i", "o", "n", " ", "f", "a", "i", "l", "e", "d", ":", " ">>,
     describe_table |-> <<"T", "a", "b", "l", "e", " ", "d", "e", "s", "c", "r", "i", "p", "t", "i", "o", "n", " ", "f", "a", "i", "l", "e", "d", ":", " ">>,
     list_tables |-> <<"T", "a", "b", "l", "e", " ", "l", "i", "s", "t", "i", "n", "g", " ", "f", "a", "i", "l", "e", "d", ":", " ">>]

\* C1: whenever the external call behind a tool invocation raised, the tool
\* did not raise: it returned the string made of that tool's failure prefix
\* followed by the exception text.
C1_ToolFailureIsAString ==
    (tool_frame # NoFrame /\ tool_frame.outcome.raised) =>
        tool_frame.result =
            Returned(PyStr(FailurePrefix[tool_frame.tool]
                           \o tool_frame.outcome.exc.text))

C1_Witness ==
    /\ tool_frame # NoFrame
    /\ tool_frame.tool = "describe_table"
    /\ tool_frame.outcome = Raised(PyException(<<"n", "o">>))
    /\ tool_frame.result = Returned(PyStr(<<"T", "a", "b", "l", "e", " ", "d", "e", "s", "c", "r", "i", "p", "t", "i", "o", "n", " ", "f", "a", "i", "l", "e", "d", ":", " ", "n", "o">>))

AllSet == \A n \in EnvNames : env[n].type = "str"

\* C2: when the five variables are set, the URI passed to from_uri is
\* 'postgresql://' user ':' password '@' host ':' port '/' database with
\* nothing added, removed, escaped or reordered; (u, p, h, 5432, d) gives
\* 'postgresql://u:p@h:5432/d'.
C2_UriIsTheTemplate ==
    (uri_passed # PyNone /\ AllSet) =>
        /\ uri_passed =
              PyStr(<<"p", "o", "s", "t", "g", "r", "e", "s", "q", "l", ":", "/", "/">> \o env["PG_USER"].s \o <<":">>
                    \o env["PG_PASSWORD"].s \o <<"@">> \o env["PG_HOST"].s
                    \o <<":">> \o env["PG_PORT"].s \o <<"/">>
                    \o env["PG_DATABASE"].s)
        /\ (db # PyNone => db.uri = uri_passed.s)
        /\ (/\ env["PG_USER"].s = <<"u">>
            /\ env["PG_PASSWORD"].s = <<"p">>
            /\ env["PG_HOST"].s = <<"h">>
            /\ env["PG_PORT"].s = <<"5", "4", "3", "2">>
            /\ env["PG_DATABASE"].s = <<"d">>)
           => uri_passed.s = <<"p", "o", "s", "t", "g", "r", "e", "s", "q", "l", ":", "/", "/", "u", ":", "p", "@", "h", ":", "5", "4", "3", "2", "/", "d">>

C2_Witness ==
    /\ db # PyNone
    /\ env["PG_PASSWORD"] = PyStr(<<"p", "@", "/">>)
    /\ uri_passed = PyStr(<<"p", "o", "s", "t", "g", "r", "e", "s", "q", "l", ":", "/", "/", "u", ":", "p", "@", "/", "@", "h", ":", "5", "4", "3", "2", "/", "d">>)

\* whether main has issued its second operation
SecondIssued ==
    \E i \in 1..Len(trace) : trace[i][1] = "call" /\ trace[i][2] = 2

ContainsBlah(v) == In(<<"b", "l", "a", "h">>, Lower(v.s))

\* C3: the second operation is issued only when the lower-cased text the
\* first operation returned contains 'blah'; when it does not, run_operation
\* is called exactly once and the run ends having printed 'No items table
\* found in the database' instead.
C3_SecondOnlyOnBlah ==
    /\ SecondIssued =>
          list_tables_result # PyNone /\ ContainsBlah(list_tables_result)
    /\ (list_tables_result # PyNone /\ ~ContainsBlah(list_tables_result)) =>
          /\ calls.run_operation = 1
          /\ blah = PyNone
          /\ pc \in {"L104", "L107", "L113", "done"}
          /\ pc = "done" =>
                output = << <<"Tables in database:", list_tables_result>>,
                            <<"No items table found in the database", PyNone>> >>

C3_Witness ==
    /\ pc = "done"
    /\ list_tables_result = PyStr(<<"B", "l", "a", "h">>)
    /\ calls.run_operation = 2
    /\ Len(output) = 2
    /\ output[2][1] = "Items:"

\* C4: whenever the tools exist the handle has been opened and is the one the
\* closures captured; the agent exists only after the tools; a tool is
\* invoked only during a kickoff, after the constructor has finished, on
\* that handle.
C4_HandleBeforeTools ==
    /\ tools # <<>> => (db # PyNone /\ db.type = "SQLDatabase" /\ closure_db = db)
    /\ agent # PyNone => (tools = ToolNames /\ agent.tools = tools)
    /\ tool_frame # NoFrame =>
          /\ agent # PyNone
          /\ pc \in {"kickoff", "crashed"}
          /\ tool_frame.db = db
          /\ db.type = "SQLDatabase"

C4_Witness ==
    /\ pc = "kickoff"
    /\ tool_frame # NoFrame
    /\ tool_frame.tool = "execute_sql"
    /\ tool_frame.db = db
    /\ db.type = "SQLDatabase"

\* C5: when from_uri raises, the process ends there: from_uri was called
\* once, there is no handle, no tool, no agent, no task or crew, no
\* operation was dispatched and nothing was printed.
C5_ConnectFailureEndsTheProcess ==
    exc.site = "from_uri" =>
        /\ pc = "crashed"
        /\ calls = [from_uri |-> 1, Agent |-> 0, run_operation |-> 0,
                    kickoff |-> 0]
        /\ db = PyNone
        /\ tools = <<>>
        /\ agent = PyNone
        /\ crews = <<>>
        /\ output = <<>>

C5_Witness ==
    /\ exc = [site |-> "from_uri", text |-> <<"n", "o">>]
    /\ pc = "crashed"
    /\ uri_passed # PyNone

\* C6: when Task, Crew or kickoff raises during run_operation, the process
\* ends there: in the first operation nothing has been printed and the
\* second operation is never issued; in the second operation exactly
\* 'Tables in database:' has been printed and 'Items:' has not.
C6_OperationFailureEndsTheProcess ==
    exc.site \in {"Task", "Crew", "kickoff"} =>
        /\ pc = "crashed"
        /\ ro # PyNone
        /\ ro.op = 1 => (output = <<>> /\ calls.run_operation = 1)
        /\ ro.op = 2 =>
              /\ output = << <<"Tables in database:", list_tables_result>> >>
              /\ calls.run_operation = 2
              /\ blah = PyNone

C6_Witness ==
    /\ exc.site = "kickoff"
    /\ pc = "crashed"
    /\ ro.op = 2
    /\ Len(output) = 1

\* C7: once the constructor has returned, no step changes the handle, the
\* handle the tools captured, the tool list or the agent.
C7_HandleNeverReassigned ==
    [][agent # PyNone =>
          /\ db' = db
          /\ closure_db' = closure_db
          /\ tools' = tools
          /\ agent' = agent]_vars

C7_Witness ==
    /\ tool_frame # NoFrame
    /\ tool_frame.outcome.raised
    /\ tool_calls = 2
    /\ ro.op = 2
    /\ closure_db = db
    /\ db.type = "SQLDatabase"

IsPrefix(s, t) == Len(s) <= Len(t) /\ SubSeq(t, 1, Len(s)) = s

OrderCommon ==
    << <<"setenv", "PG_USER">>, <<"setenv", "PG_PASSWORD">>,
       <<"setenv", "PG_HOST">>, <<"setenv", "PG_PORT">>,
       <<"setenv", "PG_DATABASE">>, <<"construct">>,
       <<"call", 1, "List all available tables in the database">>,
       <<"return", 1>>,
       <<"print", "Tables in database:">> >>

OrderWithItems ==
    OrderCommon \o
    << <<"call", 2, "List all items with their status and creation date">>,
       <<"return", 2>>,
       <<"print", "Items:">> >>

OrderWithoutItems ==
    OrderCommon \o << <<"print", "No items table found in the database">> >>

PcRank ==
    [L92 |-> 1, L93 |-> 2, L94 |-> 3, L95 |-> 4, L96 |-> 5, L98 |-> 6,
     L14 |-> 7, L15 |-> 8, L101 |-> 9, L79 |-> 10, L84 |-> 11, L89 |-> 12,
     kickoff |-> 13, L104 |-> 14, L107 |-> 15, L108 |-> 16, L111 |-> 30,
     L113 |-> 31, done |-> 40, crashed |-> 40]

\* how far the run has got: the second run_operation call ranks above the first
Rank ==
    IF pc \in {"L79", "L84", "L89", "kickoff"} /\ ro.op = 2
    THEN PcRank[pc] + 10
    ELSE PcRank[pc]

\* C9: every run follows the one fixed order (five variables set, the shim
\* constructed, the first operation issued and returned, 'Tables in
\* database:' printed, then either the second operation issued and returned
\* and 'Items:' printed, or 'No items table found in the database' printed),
\* calls run_operation once or twice, and ends: every step moves the run
\* forward (or is one of the boundedly many tool invocations of a kickoff),
\* and a run that has neither finished nor stopped at a raising external
\* call always has a next step.
C9_MainOrderAndTermination ==
    /\ [](/\ IsPrefix(trace, OrderWithItems) \/ IsPrefix(trace, OrderWithoutItems)
          /\ pc = "done" =>
                /\ trace \in {OrderWithItems, OrderWithoutItems}
                /\ calls.run_operation \in {1, 2}
                /\ exc = NoExc
          /\ pc = "crashed" => exc # NoExc
          /\ tool_calls \in 0..MaxToolCalls
          /\ pc \notin {"done", "crashed"} => ENABLED Next)
    /\ [][\/ Rank' > Rank
          \/ Rank' = Rank /\ tool_calls' > tool_calls]_vars

C9_Witness ==
    /\ pc = "done"
    /\ trace = OrderWithItems
    /\ calls.run_operation = 2

CallEvents == SelectSeq(trace, LAMBDA e : e[1] = "call")

\* C10: the agent is constructed once, with the four tools in order; every
\* crew holds exactly that agent and exactly one task, whose description is
\* the text run_operation was given and whose agent is that agent; no two
\* crews share an identity or a task; each crew is kicked off at most once,
\* and what run_operation hands to main is what kickoff returned.
C10_OneAgentOneTaskPerCall ==
    /\ calls.Agent <= 1
    /\ agent # PyNone =>
          /\ calls.Agent = 1
          /\ agent.tools =
                <<"execute_sql", "check_sql", "describe_table", "list_tables">>
    /\ Len(crews) <= Len(CallEvents)
    /\ \A i \in 1..Len(crews) :
          /\ crews[i].agents = <<agent>>
          /\ Len(crews[i].tasks) = 1
          /\ crews[i].tasks[1].agent = agent
          /\ crews[i].tasks[1].description = CallEvents[i][3]
          /\ crews[i].kickoffs <= 1
          /\ crews[i].result # PyNone => crews[i].kickoffs = 1
    /\ \A i, j \in 1..Len(crews) :
          i # j => /\ crews[i].id # crews[j].id
                   /\ crews[i].tasks[1].id # crews[j].tasks[1].id
    /\ list_tables_result # PyNone => list_tables_result = crews[1].result
    /\ blah # PyNone => blah = crews[2].result
    /\ pc = "done" => /\ calls.kickoff = calls.run_operation
                      /\ Len(crews) = calls.run_operation

C10_Witness ==
    /\ pc = "done"
    /\ Len(crews) = 2
    /\ crews[1].tasks[1].agent = crews[2].tasks[1].agent
    /\ crews[1].result = PyStr(<<"B", "l", "a", "h">>)
    /\ list_tables_result = PyStr(<<"B", "l", "a", "h">>)

=============================================================================
